---- MODULE Spec2Model ----
(***************************************************************************)
(* The Vertical Pod Autoscaler recommender's process entry point           *)
(* (vertical-pod-autoscaler/pkg/recommender/main.go): flag values, the     *)
(* construction of the post-processor chain and of the recommender, the    *)
(* startup initialization chosen by --storage, and the ticker-driven       *)
(* RunOnce loop with the health check's last-activity timestamp.           *)
(*                                                                         *)
(* Time is counted in units of --recommender-interval: one TimePasses step *)
(* is one period of the ticker created at main.go:131.                     *)
(***************************************************************************)
EXTENDS Naturals, Integers, Sequences, FiniteSets

\* ---- bounds of the model ------------------------------------------------
\* Number of ticker periods observed.
MaxTime == 5
\* Largest --checkpoints-gc-interval tried, in ticker periods.
MaxGCInterval == 2

\* ---- flag values tried --------------------------------------------------
\* --storage (main.go:47): the default "", the two documented values, and
\* a value the flag's help text does not list.
StorageValues == {"", "checkpoint", "prometheus", "historical"}

\* --prometheus-query-timeout (main.go:51): the default "5m", another valid
\* duration, and three strings time.ParseDuration rejects.
QueryTimeoutValues == {"5m", "1h30m", "", "5", "bogus"}

\* --checkpoints-gc-interval (main.go:39), in ticker periods.
GCIntervals == 1..MaxGCInterval

\* Default of --cpu-integer-post-processor-enabled (main.go:73).
postProcessorCPUasIntegerDefault == FALSE

IntegerCPUPostProcessor == "IntegerCPUPostProcessor"
CappingPostProcessor == "CappingPostProcessor"

VARIABLES
    storage,                    \* *storage
    postProcessorCPUasInteger,  \* *postProcessorCPUasInteger
    queryTimeout,               \* *queryTimeout
    checkpointsGCInterval,      \* *checkpointsGCInterval
    pc,                         \* position of main()
    useCheckpoints,             \* local useCheckpoints (main.go:90)
    postProcessors,             \* local postProcessors (main.go:92)
    recommender,                \* what NewRecommender was handed (main.go:99)
    initFromCheckpointsCalls,   \* calls of InitFromCheckpoints
    initFromHistoryCalls,       \* calls of InitFromHistoryProvider
    historyLoaded,              \* outcome of the history query: none/ok/failed
    now,                        \* wall clock, in ticker periods
    tickerCreated,              \* time.Tick has been called (main.go:131)
    tickPending,                \* the ticker channel's one-slot buffer is full
    running,                    \* RunOnce calls in progress
    runsStarted,                \* RunOnce calls begun
    lastRunOK,                  \* the last RunOnce met no error
    lastReturn,                 \* time the last RunOnce returned, -1 if none
    gcRuns,                     \* checkpoint garbage collections performed
    lastActivity                \* healthCheck.lastActivity, -1 before NewHealthCheck

flags == <<storage, postProcessorCPUasInteger, queryTimeout, checkpointsGCInterval>>
startup == <<useCheckpoints, postProcessors, recommender,
             initFromCheckpointsCalls, initFromHistoryCalls, historyLoaded>>
loop == <<tickerCreated, tickPending, running, runsStarted, lastRunOK,
          lastReturn, gcRuns>>
vars == <<flags, startup, loop, pc, now, lastActivity>>

\* ---- pure helpers -------------------------------------------------------

\* time.ParseDuration on the values tried: a duration string is a sequence
\* of decimal numbers each with a unit suffix; "" and a bare number without
\* unit are errors.
ParseDurationOK(s) == s \in {"5m", "1h30m"}

UseCheckpointsOnlyWhenNamed(s) == s = "checkpoint"

\* useCheckpoints := *storage != "prometheus"
UseCheckpoints(s) == s # "prometheus"

BuildPostProcessorsCappingFirst(cpuAsInteger) ==
    LET first == Append(<< >>, CappingPostProcessor)
    IN  IF cpuAsInteger THEN Append(first, IntegerCPUPostProcessor) ELSE first

BuildPostProcessorsUnconditional(cpuAsInteger) ==
    Append(Append(<< >>, IntegerCPUPostProcessor), CappingPostProcessor)

\* The post-processor chain of main.go:92-97.
BuildPostProcessors(cpuAsInteger) ==
    LET empty == << >>
        first == IF cpuAsInteger THEN Append(empty, IntegerCPUPostProcessor)
                 ELSE empty
    IN  Append(first, CappingPostProcessor)

NoRecommender ==
    [constructed |-> FALSE, checkpointsGCInterval |-> 0, useCheckpoints |-> FALSE,
     postProcessors |-> << >>, lastCheckpointGC |-> 0]

\* Where main() ends the process itself: the die of CreateKubeConfigOrDie
\* (main.go:81), a fatal error of the metrics server started at main.go:86, a
\* fatal error inside NewRecommender (main.go:99), and the two klog.Fatalf of
\* main.go:103 and main.go:126.
StartupFatalPcs == {"fatalKubeConfig", "fatalNewRecommender", "fatalQueryTimeout",
                    "fatalHistoryProvider"}
FatalPcs == StartupFatalPcs \cup {"fatalMetrics"}

Live == pc \notin FatalPcs \cup {"killed"}

StartupPcs == {"start", "setup", "NewRecommender", "ParseDuration", "init", "provider",
               "InitFromCheckpoints", "InitFromHistoryProvider", "ticker"}
LoopPcs == {"wait", "RunOnce", "MaintainCheckpoints", "UpdateLastActivity"}

\* ---- initial state: flags parsed, main() about to run ---------------------
Init ==
    /\ storage \in StorageValues
    /\ postProcessorCPUasInteger \in BOOLEAN
    /\ queryTimeout \in QueryTimeoutValues
    /\ checkpointsGCInterval \in GCIntervals
    /\ pc = "start"
    /\ useCheckpoints = FALSE
    /\ postProcessors = << >>
    /\ recommender = NoRecommender
    /\ initFromCheckpointsCalls = 0
    /\ initFromHistoryCalls = 0
    /\ historyLoaded = "none"
    /\ now = 0
    /\ tickerCreated = FALSE
    /\ tickPending = FALSE
    /\ running = 0
    /\ runsStarted = 0
    /\ lastRunOK = TRUE
    /\ lastReturn = -1
    /\ gcRuns = 0
    /\ lastActivity = -1

\* ---- main(): startup ----------------------------------------------------

\* main.go:81: CreateKubeConfigOrDie yields the client configuration or ends
\* the process (no in-cluster configuration and no readable --kubeconfig),
\* before the health check, the chain and the recommender exist.
CreateKubeConfigOrDie ==
    /\ pc = "start"
    /\ \E ok \in BOOLEAN : pc' = IF ok THEN "setup" ELSE "fatalKubeConfig"
    /\ UNCHANGED <<flags, startup, loop, now, lastActivity>>

\* main.go:83-97: NewHealthCheck stamps the current time, the metrics server
\* is started, the storage mode is read once, and the post-processor chain is
\* assembled.
Setup ==
    /\ pc = "setup"
    /\ lastActivity' = now
    /\ useCheckpoints' = UseCheckpoints(storage)
    /\ postProcessors' = BuildPostProcessors(postProcessorCPUasInteger)
    /\ pc' = "NewRecommender"
    /\ UNCHANGED <<flags, recommender, initFromCheckpointsCalls,
                   initFromHistoryCalls, historyLoaded, loop, now>>

\* main.go:86: metrics.Initialize serves the metrics and health endpoints in
\* the background; when that server cannot listen or stops, the process ends,
\* wherever main() is.
MetricsServerFails ==
    /\ Live
    /\ pc \notin {"start", "setup"}
    /\ pc' = "fatalMetrics"
    /\ UNCHANGED <<flags, startup, loop, now, lastActivity>>

\* main.go:99: the recommender is handed the GC interval, the storage mode
\* and the chain; its last-GC time starts at construction.  The constructor
\* builds its clients and fetchers from the configuration and ends the process
\* when one of them cannot be built.
NewRecommender ==
    /\ pc = "NewRecommender"
    /\ \E ok \in BOOLEAN :
         IF ok
         THEN /\ recommender' = [constructed |-> TRUE,
                                 checkpointsGCInterval |-> checkpointsGCInterval,
                                 useCheckpoints |-> useCheckpoints,
                                 postProcessors |-> postProcessors,
                                 lastCheckpointGC |-> now]
              /\ pc' = "ParseDuration"
         ELSE /\ recommender' = recommender
              /\ pc' = "fatalNewRecommender"
    /\ UNCHANGED <<flags, useCheckpoints, postProcessors, initFromCheckpointsCalls,
                   initFromHistoryCalls, historyLoaded, loop, now, lastActivity>>

ParseQueryTimeoutOnlyForPrometheus ==
    /\ pc = "ParseDuration"
    /\ pc' = IF ParseDurationOK(queryTimeout) \/ useCheckpoints
             THEN "init" ELSE "fatalQueryTimeout"
    /\ UNCHANGED <<flags, startup, loop, now, lastActivity>>

\* main.go:101-104: klog.Fatalf on a value time.ParseDuration rejects,
\* whichever storage mode is selected.
ParseQueryTimeout ==
    /\ pc = "ParseDuration"
    /\ pc' = IF ParseDurationOK(queryTimeout) THEN "init" ELSE "fatalQueryTimeout"
    /\ UNCHANGED <<flags, startup, loop, now, lastActivity>>

\* main.go:106-107: the call of InitFromCheckpoints.
CallInitFromCheckpoints ==
    /\ pc = "init"
    /\ useCheckpoints
    /\ initFromCheckpointsCalls' = initFromCheckpointsCalls + 1
    /\ pc' = "InitFromCheckpoints"
    /\ UNCHANGED <<flags, useCheckpoints, postProcessors, recommender,
                   initFromHistoryCalls, historyLoaded, loop, now, lastActivity>>

InitFromCheckpointsFallsThrough ==
    /\ pc = "InitFromCheckpoints"
    /\ pc' = "provider"
    /\ UNCHANGED <<flags, startup, loop, now, lastActivity>>

\* main.go:107-108,131: InitFromCheckpoints returns and main skips the else
\* branch.
InitFromCheckpointsReturn ==
    /\ pc = "InitFromCheckpoints"
    /\ pc' = "ticker"
    /\ UNCHANGED <<flags, startup, loop, now, lastActivity>>

\* main.go:108-127: NewPrometheusHistoryProvider either yields a provider or
\* an error, and the error is fatal.
NewPrometheusHistoryProvider ==
    /\ pc = "init"
    /\ ~useCheckpoints
    /\ \E ok \in BOOLEAN : pc' = IF ok THEN "provider" ELSE "fatalHistoryProvider"
    /\ UNCHANGED <<flags, startup, loop, now, lastActivity>>

\* main.go:128: the call of InitFromHistoryProvider.
CallInitFromHistoryProvider ==
    /\ pc = "provider"
    /\ initFromHistoryCalls' = initFromHistoryCalls + 1
    /\ pc' = "InitFromHistoryProvider"
    /\ UNCHANGED <<flags, useCheckpoints, postProcessors, recommender,
                   initFromCheckpointsCalls, historyLoaded, loop, now, lastActivity>>

\* The history query inside InitFromHistoryProvider succeeds or fails; on
\* failure the feeder logs and proceeds with the state it has.  The call has
\* no result (main.go:128), so main continues with the ticker either way.
InitFromHistoryProviderReturn ==
    /\ pc = "InitFromHistoryProvider"
    /\ \E ok \in BOOLEAN : historyLoaded' = IF ok THEN "ok" ELSE "failed"
    /\ pc' = "ticker"
    /\ UNCHANGED <<flags, useCheckpoints, postProcessors, recommender,
                   initFromCheckpointsCalls, initFromHistoryCalls, loop, now,
                   lastActivity>>

\* main.go:131: time.Tick creates the ticker; its first tick comes one
\* period later.
CreateTicker ==
    /\ pc = "ticker"
    /\ tickerCreated' = TRUE
    /\ pc' = "wait"
    /\ UNCHANGED <<flags, startup, tickPending, running, runsStarted, lastRunOK,
                   lastReturn, gcRuns, now, lastActivity>>

\* ---- main(): the loop ---------------------------------------------------

\* One ticker period elapses.  The ticker's channel holds one tick; a tick
\* that finds the slot full is dropped.
TimePasses ==
    /\ Live
    /\ now < MaxTime
    /\ now' = now + 1
    /\ tickPending' = (tickPending \/ tickerCreated)
    /\ UNCHANGED <<flags, startup, tickerCreated, running, runsStarted, lastRunOK,
                   lastReturn, gcRuns, pc, lastActivity>>

ReceiveTickConcurrently ==
    /\ pc \in LoopPcs
    /\ tickPending
    /\ running < 3
    /\ tickPending' = FALSE
    /\ running' = running + 1
    /\ runsStarted' = runsStarted + 1
    /\ pc' = "RunOnce"
    /\ UNCHANGED <<flags, startup, tickerCreated, lastRunOK, lastReturn, gcRuns,
                   now, lastActivity>>

\* main.go:132-133: the loop takes a tick off the channel and calls RunOnce
\* on main's own goroutine.
ReceiveTick ==
    /\ pc = "wait"
    /\ tickPending
    /\ tickPending' = FALSE
    /\ running' = running + 1
    /\ runsStarted' = runsStarted + 1
    /\ pc' = "RunOnce"
    /\ UNCHANGED <<flags, startup, tickerCreated, lastRunOK, lastReturn, gcRuns,
                   now, lastActivity>>

\* RunOnce's cycle: ingest, estimate, post-process, write back.  An external
\* source may fail; the failure is logged and the cycle goes on.
RunOnceCycle ==
    /\ pc = "RunOnce"
    /\ \E ok \in BOOLEAN : lastRunOK' = ok
    /\ pc' = "MaintainCheckpoints"
    /\ UNCHANGED <<flags, startup, tickerCreated, tickPending, running, runsStarted,
                   lastReturn, gcRuns, now, lastActivity>>

\* The GC interval handed over at main.go:99 has elapsed since the last GC.
GCDue ==
    /\ recommender.useCheckpoints
    /\ now - recommender.lastCheckpointGC > recommender.checkpointsGCInterval

\* The end of RunOnce's cycle: the periodic checkpoint step collects garbage
\* when the GC interval has elapsed, and RunOnce returns (main.go:133).
MaintainCheckpoints ==
    /\ pc = "MaintainCheckpoints"
    /\ IF GCDue
       THEN /\ recommender' = [recommender EXCEPT !.lastCheckpointGC = now]
            /\ gcRuns' = gcRuns + 1
       ELSE UNCHANGED <<recommender, gcRuns>>
    /\ running' = running - 1
    /\ lastReturn' = now
    /\ pc' = "UpdateLastActivity"
    /\ UNCHANGED <<flags, useCheckpoints, postProcessors, initFromCheckpointsCalls,
                   initFromHistoryCalls, historyLoaded, tickerCreated, tickPending,
                   runsStarted, lastRunOK, now, lastActivity>>

UpdateLastActivityOnlyOnSuccess ==
    /\ pc = "UpdateLastActivity"
    /\ lastActivity' = IF lastRunOK THEN now ELSE lastActivity
    /\ pc' = "wait"
    /\ UNCHANGED <<flags, startup, loop, now>>

\* main.go:134: healthCheck.UpdateLastActivity() after every RunOnce.
UpdateLastActivity ==
    /\ pc = "UpdateLastActivity"
    /\ lastActivity' = now
    /\ pc' = "wait"
    /\ UNCHANGED <<flags, startup, loop, now>>

\* main() installs no signal handler: a termination signal ends the process
\* wherever it is.
Terminate ==
    /\ Live
    /\ pc' = "killed"
    /\ UNCHANGED <<flags, startup, loop, now, lastActivity>>

Next ==
    \/ CreateKubeConfigOrDie
    \/ Setup
    \/ MetricsServerFails
    \/ NewRecommender
    \/ ParseQueryTimeout
    \/ CallInitFromCheckpoints
    \/ InitFromCheckpointsReturn
    \/ NewPrometheusHistoryProvider
    \/ CallInitFromHistoryProvider
    \/ InitFromHistoryProviderReturn
    \/ CreateTicker
    \/ TimePasses
    \/ ReceiveTick
    \/ RunOnceCycle
    \/ MaintainCheckpoints
    \/ UpdateLastActivity
    \/ Terminate

Spec == Init /\ [][Next]_vars

\* ---- properties ---------------------------------------------------------

InitCalls == initFromCheckpointsCalls + initFromHistoryCalls

Positions(chain, p) == {i \in 1..Len(chain) : chain[i] = p}

\* C1: the chain handed to the recommender holds the capping transform
\* exactly once and in last position, the CPU-integer transform (when there)
\* strictly before it, and the chain is not extended after construction.
C1_CappingLast ==
    recommender.constructed =>
        LET chain == recommender.postProcessors IN
        /\ Len(chain) >= 1
        /\ chain[Len(chain)] = CappingPostProcessor
        /\ Cardinality(Positions(chain, CappingPostProcessor)) = 1
        /\ \A i \in Positions(chain, IntegerCPUPostProcessor) :
             \A j \in Positions(chain, CappingPostProcessor) : i < j
        /\ postProcessors = chain

C1_Witness ==
    /\ recommender.constructed
    /\ postProcessorCPUasInteger
    /\ Len(recommender.postProcessors) = 2

\* C2: at most one RunOnce is in progress at any time, also when a tick
\* arrives while one is running.
C2_NoOverlap == running <= 1

C2_Witness == running = 1 /\ tickPending /\ runsStarted >= 2

\* C3 as stated: every run that has left startup, by one of main()'s own
\* klog.Fatalf or by reaching the ticker, has invoked exactly one of the two
\* initializations.
C3_ExactlyOneInEveryRun ==
    pc \in {"fatalQueryTimeout", "fatalHistoryProvider", "ticker"} \cup LoopPcs
        => InitCalls = 1

\* C3 amended: at most one initialization is invoked, at most once, chosen by
\* the storage value read at startup; a run that main() aborts at startup
\* (no client configuration, recommender construction, unparsable query
\* timeout, history provider construction) invokes neither; a run in which
\* a RunOnce has begun has invoked exactly one, and it has returned.
C3_AtMostOneInit ==
    /\ InitCalls <= 1
    /\ initFromCheckpointsCalls = 1 => storage # "prometheus"
    /\ initFromHistoryCalls = 1 => storage = "prometheus"
    /\ pc \in StartupFatalPcs => InitCalls = 0
    /\ pc \in {"ticker"} \cup LoopPcs => InitCalls = 1
    /\ runsStarted > 0 => InitCalls = 1 /\ pc \notin StartupPcs

C3_Witness ==
    /\ runsStarted > 0
    /\ initFromHistoryCalls = 1
    /\ initFromCheckpointsCalls = 0

\* C4 as stated: --storage=historical selects InitFromHistoryProvider and
\* --storage=checkpoint selects InitFromCheckpoints.
C4_HistoricalSelectsHistory ==
    pc \in LoopPcs =>
        /\ storage = "historical" =>
             initFromHistoryCalls = 1 /\ initFromCheckpointsCalls = 0
        /\ storage = "checkpoint" =>
             initFromCheckpointsCalls = 1 /\ initFromHistoryCalls = 0

\* C4 amended: --storage=prometheus selects InitFromHistoryProvider; every
\* other value (checkpoint, the empty default, historical) selects
\* InitFromCheckpoints.
C4_PrometheusSelectsHistory ==
    pc \in LoopPcs =>
        /\ storage = "prometheus" =>
             initFromHistoryCalls = 1 /\ initFromCheckpointsCalls = 0
        /\ storage # "prometheus" =>
             initFromCheckpointsCalls = 1 /\ initFromHistoryCalls = 0

C4_Witness ==
    /\ pc \in LoopPcs
    /\ storage = "historical"
    /\ initFromCheckpointsCalls = 1

\* C5: once the historical backfill has failed, no RunOnce is executed.
C5_BackfillFailureFatal == historyLoaded = "failed" => runsStarted = 0

\* C6: the process never stops on a signal with a RunOnce begun and not
\* finished.
C6_ShutdownWaitsForCycle == pc = "killed" => running = 0

\* C7: checkpoint GC has its own timer: when the GC interval has elapsed
\* while a RunOnce is in progress, the GC can run at once and does not wait
\* for the cycle.
C7_GCIndependentOfRunOnce ==
    running = 1 /\ GCDue => ENABLED MaintainCheckpoints

\* C8 as stated: the timestamp is never advanced for a RunOnce that failed.
C8_OnlySuccessAdvances ==
    [][(pc = "UpdateLastActivity" /\ lastActivity' # lastActivity) => lastRunOK]_vars

\* C8 amended: after NewHealthCheck, the timestamp is advanced only once a
\* RunOnce has returned (whether or not it met errors), never while one is in
\* progress, and every RunOnce that returns advances it before the next one
\* starts.
C8_EveryReturnAdvances ==
    /\ [](pc \in {"wait", "RunOnce", "MaintainCheckpoints"} /\ lastReturn >= 0
            => lastActivity >= lastReturn)
    /\ [][lastActivity' # lastActivity =>
            \/ pc = "setup"
            \/ pc = "UpdateLastActivity" /\ running = 0 /\ lastActivity' >= lastReturn]_vars

C8_Witness ==
    /\ pc = "wait"
    /\ ~lastRunOK
    /\ lastReturn > 0
    /\ lastActivity = lastReturn

\* C9: the CPU-integer transform is in the chain exactly when the flag is
\* set; with the flag at its default the chain is the capping transform alone.
C9_IntegerIffFlag ==
    recommender.constructed =>
        LET chain == recommender.postProcessors IN
        /\ (Positions(chain, IntegerCPUPostProcessor) # {}) <=> postProcessorCPUasInteger
        /\ postProcessorCPUasInteger = postProcessorCPUasIntegerDefault
             => chain = <<CappingPostProcessor>>

C9_Witness ==
    /\ recommender.constructed
    /\ postProcessorCPUasInteger = postProcessorCPUasIntegerDefault
    /\ recommender.postProcessors = <<CappingPostProcessor>>

\* C10: with an unparsable --prometheus-query-timeout, in either storage
\* mode, main gets no further than the parse: the abort comes with the
\* recommender constructed, and no initialization and no RunOnce ever runs.
C10_BadTimeoutAborts ==
    ~ParseDurationOK(queryTimeout) =>
        /\ pc \in {"start", "setup", "NewRecommender", "ParseDuration", "killed",
                  "fatalKubeConfig", "fatalMetrics", "fatalNewRecommender",
                  "fatalQueryTimeout"}
        /\ pc = "fatalQueryTimeout" => recommender.constructed
        /\ InitCalls = 0
        /\ runsStarted = 0

C10_Witness ==
    /\ pc = "fatalQueryTimeout"
    /\ ~ParseDurationOK(queryTimeout)
    /\ storage = "checkpoint"
    /\ useCheckpoints
    /\ recommender.constructed

====
